---- MODULE Spec2Model ----
(***************************************************************************)
(* RedisConnection (lib/icingadb/redisconnection.hpp): the asynchronous    *)
(* Redis connection actor.  The header gives the data model (priorities,   *)
(* write items, response actions, the queues, the suppression set, the     *)
(* atomic flags) and the bodies of ReadOne, WriteOne and the RESP codec.   *)
(* The bodies of the API methods, Connect, ReadLoop, WriteLoop and         *)
(* WriteItem are only declared there; they are modelled from the design    *)
(* document (spec.md, sections 4.3 and 4.4).                               *)
(*                                                                         *)
(* All state is mutated on one strand.  Every action below is one piece of *)
(* code that runs between two suspension points of a coroutine (a socket   *)
(* read, a socket write + flush, a connect, a condition variable wait) or  *)
(* one handler posted to the strand by an API call.                        *)
(***************************************************************************)
EXTENDS Integers, Sequences, FiniteSets, TLC

\* ------------------------------------------------------------------ bounds

\* Requests the producers enqueue in one run.
MaxReq == 3
\* Queries in a FireAndForgetQueries / GetResultsOfQueries batch.
MaxBatch == 2
\* Sockets the server accepts in one run (the first connect and reconnects).
MaxSock == 3
\* Failures the environment injects in one run (a socket that breaks, a
\* malformed reply).
MaxFail == 1
\* Requests the producers enqueue in a run with failures.
MaxResetReq == 3
MaxAuthReq == 2
\* Arguments of a query given to the codec, bytes of an argument, and the
\* length of the one long argument.
MaxArgs == 2
\* Requests in a run with suppression under fair scheduling.
MaxReleaseReq == 2
\* Requests in a run with server error replies.
MaxErrReq == 2
MaxArgLen == 2
LongArgLen == 10

\* ------------------------------------------------------- QueryPriority

Heartbeat == 0
Config == 1
State == 2
History == 3
CheckResult == 4
SyncConnection == 255

QueryPriority == {Heartbeat, Config, State, History, CheckResult, SyncConnection}

\* The classes the producers of the model use: the most important one, one in
\* the middle and the least important one.
EnqueuePriorities == {Heartbeat, State, SyncConnection}

\* The classes the producers use in a run with failures.
ResetPriorities == {State}

\* The class the producers of the model suppress and unsuppress.
SuppressedKinds == {State}

\* Mutation of PriorityBefore: the order of the classes reversed.
PriorityAfter(a, b) == a > b

\* std::map<QueryPriority, ...> iterates its keys in ascending order of the
\* enum's value: Heartbeat first, SyncConnection last.
PriorityBefore(a, b) == a < b

\* ------------------------------------------------------ ResponseAction

Ignore == "Ignore"
Deliver == "Deliver"
DeliverBulk == "DeliverBulk"

\* Mutation of FutureResponseAction: a descriptor that stands for one reply.
SingleResponseAction(amount, action) == [Amount |-> 1, Action |-> action]

\* struct FutureResponseAction: what to do with how many responses.
FutureResponseAction(amount, action) == [Amount |-> amount, Action |-> action]

\* ------------------------------------------------------ WriteQueueItem

\* The variant of an item is the one member of WriteQueueItem that is set.
\* id names the request (and, for the two GetResult variants, its promise),
\* n is the number of queries the item holds.
WriteQueueItem(kind, id, n) == [kind |-> kind, id |-> id, n |-> n]

NoItem == WriteQueueItem("None", 0, 0)

HasPromise(item) == item.kind \in {"GetResultOfQuery", "GetResultsOfQueries"}

\* ------------------------------------------------------------ std::queue

\* Mutation of QueuePush: a stack instead of a queue.
StackPush(q, x) == <<x>> \o q

QueuePush(q, x) == Append(q, x)

\* Mutation of QueueFront: the newest element instead of the oldest.
QueueBack(q) == q[Len(q)]

QueueFront(q) == Head(q)

QueuePop(q) == Tail(q)

\* ------------------------------------------------------------- replies

\* A query on the wire is named by its request and its position in the
\* request's batch.  The server answers the queries of a socket in the order
\* it received them; ReplyTo(q) is its answer to q.
QueryOf(id, idx) == <<id, idx>>

ReplyTo(q) == [to |-> q]

\* What a requestor's future holds.
NoFuture == [st |-> "none", val |-> <<>>]
Pending == [st |-> "pending", val |-> <<>>]
Disconnected == [st |-> "Disconnected", val |-> <<>>]
Value(replies) == [st |-> "value", val |-> replies]

\* ------------------------------------------------------------ RESP codec

\* Bytes are written as strings: "CR", "LF" and "NUL" are the bytes 13, 10
\* and 0; every other byte is its character.
CR == "CR"
LF == "LF"
Digits == <<"0", "1", "2", "3", "4", "5", "6", "7", "8", "9">>

IsDigit(b) == \E i \in DOMAIN Digits : Digits[i] = b

DigitValue(b) == (CHOOSE i \in DOMAIN Digits : Digits[i] = b) - 1

\* operator<< of a size: the decimal digits, most significant first.
RECURSIVE DecimalOf(_)
DecimalOf(n) ==
    IF n < 10 THEN <<Digits[n + 1]>>
    ELSE DecimalOf(n \div 10) \o <<Digits[(n % 10) + 1]>>

RECURSIVE DigitsValue(_)
DigitsValue(ds) ==
    IF ds = <<>> THEN 0
    ELSE 10 * DigitsValue(SubSeq(ds, 1, Len(ds) - 1)) + DigitValue(ds[Len(ds)])

\* boost::lexical_cast<intmax_t>: an optional sign and at least one digit,
\* nothing else.
LexicalCast(line) ==
    LET signed == line # <<>> /\ line[1] \in {"+", "-"}
        ds == IF signed THEN Tail(line) ELSE line
    IN  IF ds # <<>> /\ \A i \in DOMAIN ds : IsDigit(ds[i])
        THEN [ok |-> TRUE,
              val |-> IF signed /\ line[1] = "-"
                      THEN 0 - DigitsValue(ds) ELSE DigitsValue(ds)]
        ELSE [ok |-> FALSE, val |-> 0]

\* The values ReadRESP returns.
RespString(bytes) == [t |-> "String", s |-> bytes]
RespNumber(n) == [t |-> "Number", n |-> n]
RespEmpty == [t |-> "Empty"]
RespArray(elems) == [t |-> "Array", a |-> elems]
RedisError(message) == [t |-> "RedisError", m_Message |-> message]

\* How a read ends: with a value and the position of the next byte, with an
\* exception, or never ("eof": the stream ends before the read is through).
Returned(val, next) == [st |-> "value", val |-> val, next |-> next]
Thrown(what) == [st |-> what, val |-> RespEmpty, next |-> 0]
Truncated == Thrown("eof")

\* Mutation of ReadLine: the byte after the CR is left in the stream.
RECURSIVE ReadLineKeepsLf(_, _, _)
ReadLineKeepsLf(stream, pos, line) ==
    IF pos > Len(stream) THEN Truncated
    ELSE IF stream[pos] = CR THEN Returned(line, pos + 1)
    ELSE ReadLineKeepsLf(stream, pos + 1, Append(line, stream[pos]))

\* ReadLine: bytes are collected up to a CR; then one more byte is read,
\* whatever it is, and the line is returned.
RECURSIVE ReadLine(_, _, _)
ReadLine(stream, pos, line) ==
    IF pos > Len(stream) THEN Truncated
    ELSE IF stream[pos] = CR
         THEN IF pos + 1 > Len(stream) THEN Truncated
              ELSE Returned(line, pos + 2)
    ELSE ReadLine(stream, pos + 1, Append(line, stream[pos]))

\* Mutation of ErrorReply: the error reply is thrown.
ErrorThrown(message, next) == Thrown("RedisError")

\* case '-': the line comes back as a RedisError object, a value.
ErrorReply(message, next) == Returned(RedisError(message), next)

\* ReadRESP, and the loop of its case '*'.
RECURSIVE ReadRESP(_, _)
RECURSIVE ReadElements(_, _, _, _)
ReadRESP(stream, pos) ==
    IF pos > Len(stream) THEN Truncated
    ELSE
    LET type == stream[pos]
        l == ReadLine(stream, pos + 1, <<>>)
        i == LexicalCast(l.val)
    IN  CASE type = "+" ->
                IF l.st # "value" THEN l ELSE Returned(RespString(l.val), l.next)
          [] type = "-" ->
                IF l.st # "value" THEN l ELSE ErrorReply(l.val, l.next)
          [] type = ":" ->
                IF l.st # "value" THEN l
                ELSE IF ~i.ok THEN Thrown("BadRedisInt")
                ELSE Returned(RespNumber(i.val), l.next)
          [] type = "$" ->
                IF l.st # "value" THEN l
                ELSE IF ~i.ok THEN Thrown("BadRedisInt")
                ELSE IF i.val < 0 THEN Returned(RespEmpty, l.next)
                ELSE IF l.next + i.val + 1 > Len(stream) THEN Truncated
                ELSE Returned(
                        RespString(SubSeq(stream, l.next, l.next + i.val - 1)),
                        l.next + i.val + 2)
          [] type = "*" ->
                IF l.st # "value" THEN l
                ELSE IF ~i.ok THEN Thrown("BadRedisInt")
                ELSE ReadElements(stream, l.next,
                        IF i.val < 0 THEN 0 ELSE i.val, <<>>)
          [] OTHER -> Thrown("BadRedisType")

ReadElements(stream, pos, n, arr) ==
    IF n = 0 THEN Returned(RespArray(arr), pos)
    ELSE LET e == ReadRESP(stream, pos)
         IN  IF e.st # "value" THEN e
             ELSE ReadElements(stream, e.next, n - 1, Append(arr, e.val))

\* WriteRESP: "*", the number of arguments, CR LF, and for each argument "$",
\* its length, CR LF, its bytes, CR LF.
RECURSIVE WriteArgs(_)
WriteArgs(args) ==
    IF args = <<>> THEN <<>>
    ELSE <<"$">> \o DecimalOf(Len(Head(args))) \o <<CR, LF>>
            \o Head(args) \o <<CR, LF>> \o WriteArgs(Tail(args))

WriteRESP(query) ==
    <<"*">> \o DecimalOf(Len(query)) \o <<CR, LF>> \o WriteArgs(query)

\* ----------------------------------------------------------------- state

VARIABLES
    m_Started,              \* Atomic<bool>
    m_Connecting,           \* Atomic<bool>
    m_Connected,            \* Atomic<bool>
    m_Conn,                 \* m_TcpConn / m_UnixConn: a socket, or 0 (nullptr)
    Writes,                 \* m_Queues.Writes
    ReplyPromises,          \* m_Queues.ReplyPromises
    RepliesPromises,        \* m_Queues.RepliesPromises
    FutureResponseActions,  \* m_Queues.FutureResponseActions
    m_SuppressedQueryKinds,
    m_QueuedWrites,         \* AsioConditionVariable: set or cleared
    m_QueuedReads,
    m_ConnectedCallback,    \* whether a callback is registered
    writer,                 \* the WriteLoop coroutine
    reader,                 \* the ReadLoop coroutine
    connectors,             \* the Connect coroutines that are running
    sock,                   \* the server's side of every socket opened so far
    failures,               \* failures injected so far
    quota,                  \* requests the producers may still enqueue
    classes,                \* the priority classes the producers use
    m_Password,             \* whether a password is configured (non-empty)
    m_DbIndex,              \* the configured database index
    resp,                   \* a byte stream and what the RESP codec made of it
    requests,               \* the requests enqueued so far, by id
    future,                 \* each request's future
    callbackRuns            \* per socket, how often the callback ran for it

vars == <<m_Started, m_Connecting, m_Connected, m_Conn, Writes, ReplyPromises,
          RepliesPromises, FutureResponseActions, m_SuppressedQueryKinds,
          m_QueuedWrites, m_QueuedReads, m_ConnectedCallback, writer, reader,
          connectors, sock, failures, quota, classes, m_Password, m_DbIndex,
          resp, requests, future,
          callbackRuns>>

queueVars == <<Writes, ReplyPromises, RepliesPromises, FutureResponseActions>>
flagVars == <<m_Connecting, m_Connected, m_Conn, connectors>>
configVars == <<classes, m_Password, m_DbIndex, resp>>
envVars == <<sock, failures, quota, configVars>>

\* A coroutine that is not inside WriteOne / ReadOne.  strm is the copy of the
\* stream pointer WriteOne / ReadOne keep across their suspension; buf holds
\* the replies read so far for the bulk promise at the front.
WriterIdle == [pc |-> "idle", item |-> NoItem, idx |-> 0, strm |-> 0]
ReaderIdle == [pc |-> "idle", strm |-> 0, buf |-> <<>>]

NewConnector == [pc |-> "begin", s |-> 0]
\* errs counts the error replies read from the socket.
NewSocket ==
    [out |-> <<>>, nread |-> 0, broken |-> FALSE, rejected |-> FALSE,
     errs |-> 0]

\* No byte stream is looked at.
NoResp ==
    [st |-> "none", in |-> <<>>, encoded |-> FALSE, query |-> <<>>,
     malformed |-> FALSE, out |-> Truncated]

\* The state after construction.
Constructed ==
    /\ m_Started = FALSE
    /\ m_Connecting = FALSE
    /\ m_Connected = FALSE
    /\ m_Conn = 0
    /\ Writes = [p \in QueryPriority |-> <<>>]
    /\ ReplyPromises = <<>>
    /\ RepliesPromises = <<>>
    /\ FutureResponseActions = <<>>
    /\ m_SuppressedQueryKinds = {}
    /\ m_QueuedWrites = FALSE
    /\ m_QueuedReads = FALSE
    /\ m_ConnectedCallback = FALSE
    /\ writer = WriterIdle
    /\ reader = ReaderIdle
    /\ connectors = <<>>
    /\ sock = <<>>
    /\ requests = <<>>
    /\ future = <<>>
    /\ callbackRuns = <<>>
    /\ resp = NoResp

\* No password and database 0: the Connector sends neither AUTH nor SELECT.
NoHandshake ==
    /\ m_Password = FALSE
    /\ m_DbIndex = 0

\* A run on a server that stays up and answers well-formed replies.
Init ==
    /\ Constructed
    /\ quota = MaxReq
    /\ classes = EnqueuePriorities
    /\ NoHandshake
    /\ failures = MaxFail

\* A run in which sockets break and replies are malformed.
ResetInit ==
    /\ Constructed
    /\ quota = MaxResetReq
    /\ classes = ResetPriorities
    /\ NoHandshake
    /\ failures = 0

\* ------------------------------------------------------------ API calls

\* The session a request is enqueued in, when that session follows a
\* connection loss: the socket of the session, 0 when the connection is not
\* connected or is in its first session.  (History kept for the properties.)
SessionAfterLoss == IF m_Connected /\ m_Conn > 1 THEN m_Conn ELSE 0

\* The handler every enqueueing API call posts to the strand.
Enqueue(kind, n, priority, fut) ==
    /\ m_Started
    /\ quota > 0
    /\ quota' = quota - 1
    /\ LET id == Len(requests) + 1 IN
        /\ Writes' = [Writes EXCEPT
                ![priority] = QueuePush(@, WriteQueueItem(kind, id, n))]
        /\ requests' = Append(requests,
                [kind |-> kind, n |-> n, priority |-> priority,
                 session |-> SessionAfterLoss, released |-> FALSE])
        /\ future' = Append(future, fut)
    /\ m_QueuedWrites' = TRUE
    /\ UNCHANGED <<m_Started, flagVars, ReplyPromises, RepliesPromises,
                   FutureResponseActions, m_SuppressedQueryKinds, m_QueuedReads,
                   m_ConnectedCallback, writer, reader, sock, failures,
                   configVars, callbackRuns>>

FireAndForgetQuery(priority) ==
    Enqueue("FireAndForgetQuery", 1, priority, NoFuture)

FireAndForgetQueries(n, priority) ==
    Enqueue("FireAndForgetQueries", n, priority, NoFuture)

GetResultOfQuery(priority) ==
    Enqueue("GetResultOfQuery", 1, priority, Pending)

GetResultsOfQueries(n, priority) ==
    Enqueue("GetResultsOfQueries", n, priority, Pending)

\* Sync: a GetResultOfQuery of a no-op at the least important class.
Sync == GetResultOfQuery(SyncConnection)

EnqueueCallback(priority) ==
    Enqueue("Callback", 0, priority, NoFuture)

\* Mutation of SetInsert: a second insertion takes the element out again.
SetToggle(S, k) == IF k \in S THEN S \ {k} ELSE S \cup {k}

\* std::set<QueryPriority>: emplace and erase.
SetInsert(S, k) == S \cup {k}

SetErase(S, k) == S \ {k}

\* Mutation of IsSuppressed: the set is not consulted.
NeverSuppressed(k) == FALSE

\* "Kinds of queries not to actually send yet".
IsSuppressed(k) == k \in m_SuppressedQueryKinds

SuppressQueryKind(kind) ==
    /\ m_SuppressedQueryKinds' = SetInsert(m_SuppressedQueryKinds, kind)
    /\ UNCHANGED <<m_Started, flagVars, queueVars, m_QueuedWrites, m_QueuedReads,
                   m_ConnectedCallback, writer, reader, envVars, requests,
                   future, callbackRuns>>

\* Mutation of Unsuppress: the writes-pending condition variable is not
\* signalled.
UnsuppressNoSignal(kind) ==
    /\ m_SuppressedQueryKinds' = SetErase(m_SuppressedQueryKinds, kind)
    /\ UNCHANGED m_QueuedWrites

\* The handler UnsuppressQueryKind posts: the kind leaves the set and the
\* writes-pending condition variable is signalled.
Unsuppress(kind) ==
    /\ m_SuppressedQueryKinds' = SetErase(m_SuppressedQueryKinds, kind)
    /\ m_QueuedWrites' = TRUE

UnsuppressQueryKind(kind) ==
    /\ Unsuppress(kind)
    /\ UNCHANGED <<m_Started, flagVars, queueVars, m_QueuedReads,
                   m_ConnectedCallback, writer, reader, envVars, requests,
                   future, callbackRuns>>

\* The Writer waits on the writes-pending condition variable.
WriterWaits == writer.pc = "idle" /\ ~m_QueuedWrites

\* Whether UnsuppressQueryKind(kind), called now, releases the queued item of
\* request id: the connection is connected, the kind is suppressed, the item
\* is queued in that class and the Writer waits.
Releases(kind, id) ==
    /\ m_Connected
    /\ IsSuppressed(kind)
    /\ WriterWaits
    /\ \E i \in DOMAIN Writes[kind] : Writes[kind][i].id = id

\* UnsuppressQueryKind, with the requests it releases marked.  (History kept
\* for the properties.)
UnsuppressQueryKindMarked(kind) ==
    /\ Unsuppress(kind)
    /\ requests' = [id \in DOMAIN requests |->
            IF Releases(kind, id)
            THEN [requests[id] EXCEPT !.released = TRUE]
            ELSE requests[id]]
    /\ UNCHANGED <<m_Started, flagVars, queueVars, m_QueuedReads,
                   m_ConnectedCallback, writer, reader, envVars,
                   future, callbackRuns>>

\* The owner registers the callback before it starts the connection.
SetConnectedCallback ==
    /\ ~m_Started
    /\ m_ConnectedCallback' = TRUE
    /\ UNCHANGED <<m_Started, flagVars, queueVars, m_SuppressedQueryKinds,
                   m_QueuedWrites, m_QueuedReads, writer, reader, envVars,
                   requests, future, callbackRuns>>

\* Start: the first call spawns the Connector; m_Connecting keeps a second
\* call from spawning another.
Start ==
    /\ m_Started' = TRUE
    /\ IF m_Connecting
       THEN UNCHANGED <<m_Connecting, connectors>>
       ELSE /\ m_Connecting' = TRUE
            /\ connectors' = Append(connectors, NewConnector)
    /\ UNCHANGED <<m_Connected, m_Conn, queueVars, m_SuppressedQueryKinds,
                   m_QueuedWrites, m_QueuedReads, m_ConnectedCallback, writer,
                   reader, envVars, requests, future, callbackRuns>>

\* ------------------------------------------------------- failure handling

\* The catch block of ReadOne and of WriteOne: m_Connecting.exchange(false)
\* tells whether this connection was connecting or connected; if so the
\* connection is marked disconnected, the member stream pointer is cleared and,
\* m_Connecting being false at that point, !m_Connecting.exchange(true) holds
\* and a Connect coroutine is spawned.
ResetOnError ==
    IF m_Connecting
    THEN /\ m_Connected' = FALSE
         /\ m_Conn' = 0
         /\ m_Connecting' = TRUE
         /\ connectors' = Append(connectors, NewConnector)
    ELSE UNCHANGED flagVars

\* The promises that are outstanding: moved to one of the promise queues, or
\* still held by an item of a write queue.
PromisesIn(q) == {q[i] : i \in DOMAIN q}

QueuedPromises ==
    UNION {{Writes[p][i].id : i \in {j \in DOMAIN Writes[p] :
                HasPromise(Writes[p][j])}} : p \in QueryPriority}

Outstanding ==
    PromisesIn(ReplyPromises) \cup PromisesIn(RepliesPromises) \cup QueuedPromises

\* What the task does with the exception ReadOne / WriteOne let through: every
\* outstanding promise fails with Disconnected and all queues are cleared.
OnTaskFailure ==
    /\ future' = [id \in DOMAIN future |->
            IF id \in Outstanding THEN Disconnected ELSE future[id]]
    /\ Writes' = [p \in QueryPriority |-> <<>>]
    /\ ReplyPromises' = <<>>
    /\ RepliesPromises' = <<>>
    /\ FutureResponseActions' = <<>>

\* ------------------------------------------------------------- WriteLoop

\* The classes WriteLoop may serve, and the one it serves: the first, in the
\* map's order, that is not suppressed and whose queue is not empty.
Eligible == {p \in QueryPriority : ~IsSuppressed(p) /\ Writes[p] # <<>>}

NextKind ==
    CHOOSE p \in Eligible : \A q \in Eligible : q = p \/ PriorityBefore(p, q)

\* The Writer and the Reader run while the connection is connected: the
\* Connector starts or resumes them as its last step.
WriterMayRun == m_Connected

ReaderMayRun == m_Connected

\* WriteLoop pops the front item of the class it serves and WriteItem starts
\* on it: a callback runs; the promise of a GetResult item moves to its promise
\* queue; WriteOne is called for the first query and suspends in the write.
WriterSelect ==
    /\ writer.pc = "idle"
    /\ m_QueuedWrites
    /\ WriterMayRun
    /\ Eligible # {}
    /\ m_Conn # 0
    /\ LET p == NextKind
           item == QueueFront(Writes[p])
       IN  /\ Writes' = [Writes EXCEPT ![p] = QueuePop(@)]
           /\ ReplyPromises' =
                IF item.kind = "GetResultOfQuery"
                THEN QueuePush(ReplyPromises, item.id) ELSE ReplyPromises
           /\ RepliesPromises' =
                IF item.kind = "GetResultsOfQueries"
                THEN QueuePush(RepliesPromises, item.id) ELSE RepliesPromises
           /\ writer' =
                IF item.kind = "Callback" THEN WriterIdle
                ELSE [pc |-> "write", item |-> item, idx |-> 1, strm |-> m_Conn]
    /\ UNCHANGED <<m_Started, flagVars, FutureResponseActions,
                   m_SuppressedQueryKinds, m_QueuedWrites, m_QueuedReads,
                   m_ConnectedCallback, reader, envVars, requests, future,
                   callbackRuns>>

\* As WriterSelect, but the stream pointer is null: WriteOne throws
\* RedisDisconnected before it writes, and the item's request fails with the
\* rest.  (A callback needs no socket and runs.)
WriterSelectDisconnected ==
    /\ writer.pc = "idle"
    /\ m_QueuedWrites
    /\ WriterMayRun
    /\ Eligible # {}
    /\ m_Conn = 0
    /\ IF QueueFront(Writes[NextKind]).kind = "Callback"
       THEN /\ Writes' = [Writes EXCEPT ![NextKind] = QueuePop(@)]
            /\ UNCHANGED <<ReplyPromises, RepliesPromises,
                           FutureResponseActions, future, reader>>
       ELSE /\ OnTaskFailure
            /\ reader' = [reader EXCEPT !.buf = <<>>]
    /\ UNCHANGED <<m_Started, flagVars, m_SuppressedQueryKinds, m_QueuedWrites,
                   m_QueuedReads, m_ConnectedCallback, writer, envVars,
                   requests, callbackRuns>>

\* No class can be served: WriteLoop clears the condition variable and waits.
WriterWait ==
    /\ writer.pc = "idle"
    /\ m_QueuedWrites
    /\ WriterMayRun
    /\ Eligible = {}
    /\ m_QueuedWrites' = FALSE
    /\ UNCHANGED <<m_Started, flagVars, queueVars, m_SuppressedQueryKinds,
                   m_QueuedReads, m_ConnectedCallback, writer, reader, envVars,
                   requests, future, callbackRuns>>

\* The descriptor WriteItem pushes once the item's queries are written.
ResponseActionOf(item) ==
    CASE item.kind = "GetResultOfQuery" -> FutureResponseAction(1, Deliver)
      [] item.kind = "GetResultsOfQueries" ->
            FutureResponseAction(item.n, DeliverBulk)
      [] OTHER -> FutureResponseAction(item.n, Ignore)

\* WriteOne returns: the query went out on the stream WriteOne copied before
\* it suspended.  WriteItem goes on to the item's next query, or pushes the
\* item's descriptor and signals the Reader.
WriteOneDone ==
    /\ writer.pc = "write"
    /\ ~sock[writer.strm].broken
    /\ sock' = [sock EXCEPT ![writer.strm].out =
            Append(@, QueryOf(writer.item.id, writer.idx))]
    /\ IF writer.idx < writer.item.n
       THEN IF m_Conn # 0
            THEN /\ writer' = [writer EXCEPT !.idx = @ + 1, !.strm = m_Conn]
                 /\ UNCHANGED <<queueVars, m_QueuedReads, future, reader>>
            ELSE \* the next WriteOne throws RedisDisconnected
                 /\ writer' = WriterIdle
                 /\ OnTaskFailure
                 /\ reader' = [reader EXCEPT !.buf = <<>>]
                 /\ UNCHANGED m_QueuedReads
       ELSE /\ writer' = WriterIdle
            /\ FutureResponseActions' =
                    QueuePush(FutureResponseActions, ResponseActionOf(writer.item))
            /\ m_QueuedReads' = TRUE
            /\ UNCHANGED <<Writes, ReplyPromises, RepliesPromises, future, reader>>
    /\ UNCHANGED <<m_Started, flagVars, m_SuppressedQueryKinds, m_QueuedWrites,
                   m_ConnectedCallback, failures, quota, configVars, requests, callbackRuns>>

\* WriteOne's write or flush fails on the stream it copied.
WriteOneFail ==
    /\ writer.pc = "write"
    /\ sock[writer.strm].broken
    /\ ResetOnError
    /\ OnTaskFailure
    /\ writer' = WriterIdle
    /\ reader' = [reader EXCEPT !.buf = <<>>]
    /\ UNCHANGED <<m_Started, m_SuppressedQueryKinds, m_QueuedWrites,
                   m_QueuedReads, m_ConnectedCallback, envVars, requests,
                   callbackRuns>>

\* -------------------------------------------------------------- ReadLoop

\* No reply is due: ReadLoop clears the condition variable and waits.
ReaderWait ==
    /\ reader.pc = "idle"
    /\ m_QueuedReads
    /\ ReaderMayRun
    /\ FutureResponseActions = <<>>
    /\ m_QueuedReads' = FALSE
    /\ UNCHANGED <<m_Started, flagVars, queueVars, m_SuppressedQueryKinds,
                   m_QueuedWrites, m_ConnectedCallback, writer, reader, envVars,
                   requests, future, callbackRuns>>

\* A reply is due: ReadOne copies the stream pointer and suspends in the read,
\* or throws RedisDisconnected when the pointer is null.
ReaderReadOne ==
    /\ reader.pc = "idle"
    /\ m_QueuedReads
    /\ ReaderMayRun
    /\ FutureResponseActions # <<>>
    /\ IF m_Conn # 0
       THEN /\ reader' = [reader EXCEPT !.pc = "read", !.strm = m_Conn]
            /\ UNCHANGED <<queueVars, future>>
       ELSE /\ OnTaskFailure
            /\ reader' = ReaderIdle
    /\ UNCHANGED <<m_Started, flagVars, m_SuppressedQueryKinds, m_QueuedWrites,
                   m_QueuedReads, m_ConnectedCallback, writer, envVars,
                   requests, callbackRuns>>

\* Mutation of Consumed: the descriptor is popped at its first reply.
PopDescriptor(fra) == QueuePop(fra)

\* The front descriptor with one reply less to come; exhausted, it is popped.
Consumed(fra) ==
    IF QueueFront(fra).Amount = 1
    THEN QueuePop(fra)
    ELSE <<[QueueFront(fra) EXCEPT !.Amount = @ - 1]>> \o QueuePop(fra)

\* Whether the front descriptor asks for a promise that is not there.
PromiseMissing ==
    /\ FutureResponseActions # <<>>
    /\ \/ QueueFront(FutureResponseActions).Action = Deliver
          /\ ReplyPromises = <<>>
       \/ QueueFront(FutureResponseActions).Action = DeliverBulk
          /\ RepliesPromises = <<>>

\* ReadOne returns reply, the next value of the stream it copied, and
\* ReadLoop disposes of it as the front descriptor says.  (With no descriptor
\* left, which takes a reset during the read, the reply is dropped.)
ReadOneReturns(reply) ==
    /\ reader.pc = "read"
    /\ ~sock[reader.strm].broken
    /\ sock[reader.strm].nread < Len(sock[reader.strm].out)
    /\ ~PromiseMissing
    /\ LET fra == FutureResponseActions
       IN  IF fra = <<>>
           THEN /\ reader' = ReaderIdle
                /\ UNCHANGED <<queueVars, future>>
           ELSE /\ FutureResponseActions' = Consumed(fra)
                /\ CASE QueueFront(fra).Action = Ignore ->
                        /\ reader' = [reader EXCEPT !.pc = "idle", !.strm = 0]
                        /\ UNCHANGED <<ReplyPromises, RepliesPromises, future>>
                     [] QueueFront(fra).Action = Deliver ->
                        /\ future' = [future EXCEPT
                                ![QueueFront(ReplyPromises)] = Value(<<reply>>)]
                        /\ ReplyPromises' = QueuePop(ReplyPromises)
                        /\ reader' = [reader EXCEPT !.pc = "idle", !.strm = 0]
                        /\ UNCHANGED RepliesPromises
                     [] QueueFront(fra).Action = DeliverBulk ->
                        IF QueueFront(fra).Amount = 1
                        THEN /\ future' = [future EXCEPT
                                    ![QueueFront(RepliesPromises)] =
                                        Value(Append(reader.buf, reply))]
                             /\ RepliesPromises' = QueuePop(RepliesPromises)
                             /\ reader' = ReaderIdle
                             /\ UNCHANGED ReplyPromises
                        ELSE /\ reader' = [pc |-> "idle", strm |-> 0,
                                           buf |-> Append(reader.buf, reply)]
                             /\ UNCHANGED <<ReplyPromises, RepliesPromises, future>>
                /\ UNCHANGED Writes
    /\ UNCHANGED <<m_Started, flagVars, m_SuppressedQueryKinds, m_QueuedWrites,
                   m_QueuedReads, m_ConnectedCallback, writer, failures,
                   quota, configVars, requests, callbackRuns>>

\* ReadRESP throws in ReadOne: the catch block resets and rethrows.
ReadOneThrows ==
    /\ reader.pc = "read"
    /\ ~sock[reader.strm].broken
    /\ sock[reader.strm].nread < Len(sock[reader.strm].out)
    /\ ResetOnError
    /\ OnTaskFailure
    /\ reader' = ReaderIdle
    /\ UNCHANGED <<m_Started, m_SuppressedQueryKinds, m_QueuedWrites,
                   m_QueuedReads, m_ConnectedCallback, writer, failures,
                   quota, configVars, requests, callbackRuns>>

\* The server's reply to the query is the reply the query asks for.
ReadOneDone ==
    /\ reader.pc = "read"
    /\ sock[reader.strm].nread < Len(sock[reader.strm].out)
    /\ sock' = [sock EXCEPT ![reader.strm].nread = @ + 1]
    /\ ReadOneReturns(
            ReplyTo(sock[reader.strm].out[sock[reader.strm].nread + 1]))

\* The server's reply to the query is an error ("-ERR" CR LF): ReadOne goes
\* on with what ReadRESP makes of these bytes.
ErrMessage == <<"E", "R", "R">>

ServerErrorReply == <<"-">> \o ErrMessage \o <<CR, LF>>

ReadOneServerError ==
    /\ reader.pc = "read"
    /\ sock' = [sock EXCEPT ![reader.strm].nread = @ + 1,
                            ![reader.strm].errs = @ + 1]
    /\ LET r == ReadRESP(ServerErrorReply, 1)
       IN  IF r.st = "value" THEN ReadOneReturns(r.val) ELSE ReadOneThrows

\* The reply is read, but the descriptor demands a delivery and the promise
\* queue is empty: the programming-error condition, which fails the connection.
ReadOneNoPromise ==
    /\ reader.pc = "read"
    /\ ~sock[reader.strm].broken
    /\ sock[reader.strm].nread < Len(sock[reader.strm].out)
    /\ PromiseMissing
    /\ sock' = [sock EXCEPT ![reader.strm].nread = @ + 1]
    /\ ResetOnError
    /\ OnTaskFailure
    /\ reader' = ReaderIdle
    /\ UNCHANGED <<m_Started, m_SuppressedQueryKinds, m_QueuedWrites,
                   m_QueuedReads, m_ConnectedCallback, writer, failures,
                   quota, configVars, requests, callbackRuns>>

\* ReadOne's read fails on the stream it copied (the socket is broken).
ReadOneFail ==
    /\ reader.pc = "read"
    /\ sock[reader.strm].broken
    /\ ResetOnError
    /\ OnTaskFailure
    /\ reader' = ReaderIdle
    /\ UNCHANGED <<m_Started, m_SuppressedQueryKinds, m_QueuedWrites,
                   m_QueuedReads, m_ConnectedCallback, writer, envVars,
                   requests, callbackRuns>>

\* ReadRESP throws on the next reply (BadRedisType, BadRedisInt): the socket
\* itself is intact.
ReadOneProtocolError ==
    /\ reader.pc = "read"
    /\ ~sock[reader.strm].broken
    /\ sock[reader.strm].nread < Len(sock[reader.strm].out)
    /\ failures < MaxFail
    /\ failures' = failures + 1
    /\ ResetOnError
    /\ OnTaskFailure
    /\ reader' = ReaderIdle
    /\ UNCHANGED <<m_Started, m_SuppressedQueryKinds, m_QueuedWrites,
                   m_QueuedReads, m_ConnectedCallback, writer, sock, quota,
                   configVars, requests, callbackRuns>>

\* --------------------------------------------------------------- Connect

RemoveAt(seq, i) == SubSeq(seq, 1, i - 1) \o SubSeq(seq, i + 1, Len(seq))

\* Steps 1 and 2: marks the connection not connected and clears the handle.
ConnectBegin(i) ==
    /\ connectors[i].pc = "begin"
    /\ m_Connected' = FALSE
    /\ m_Conn' = 0
    /\ connectors' = [connectors EXCEPT ![i].pc = "open"]
    /\ UNCHANGED <<m_Started, m_Connecting, queueVars, m_SuppressedQueryKinds,
                   m_QueuedWrites, m_QueuedReads, m_ConnectedCallback, writer,
                   reader, envVars, requests, future, callbackRuns>>

\* Step 3: the connect succeeds and the new socket becomes the handle.  (A
\* connect that fails is tried again: the Connector stays where it is.)
ConnectOpen(i) ==
    /\ connectors[i].pc = "open"
    /\ Len(sock) < MaxSock
    /\ sock' = Append(sock, NewSocket)
    /\ callbackRuns' = Append(callbackRuns, 0)
    /\ m_Conn' = Len(sock) + 1
    /\ connectors' = [connectors EXCEPT ![i] = [pc |-> "opened", s |-> Len(sock) + 1]]
    /\ UNCHANGED <<m_Started, m_Connecting, m_Connected, queueVars,
                   m_SuppressedQueryKinds, m_QueuedWrites, m_QueuedReads,
                   m_ConnectedCallback, writer, reader, failures, quota,
                   configVars, requests, future>>

\* The queries of the handshake, which belong to no request.
AuthQuery == QueryOf(0, 1)
SelectQuery == QueryOf(0, 2)

\* Where a Connector stands once steps 3 to 5 are through.
AuthDone == IF m_Password THEN "authed" ELSE "opened"
HandshakeDone == IF m_DbIndex # 0 THEN "selected" ELSE AuthDone

\* Step 4: with a password configured, the Connector writes AUTH on the
\* socket it opened and waits for the reply.
ConnectAuth(i) ==
    /\ connectors[i].pc = "opened"
    /\ m_Password
    /\ ~sock[connectors[i].s].broken
    /\ sock' = [sock EXCEPT ![connectors[i].s].out = Append(@, AuthQuery)]
    /\ connectors' = [connectors EXCEPT ![i].pc = "auth"]
    /\ UNCHANGED <<m_Started, m_Connecting, m_Connected, m_Conn, queueVars,
                   m_SuppressedQueryKinds, m_QueuedWrites, m_QueuedReads,
                   m_ConnectedCallback, writer, reader, failures, quota,
                   configVars, requests, future, callbackRuns>>

\* Step 5: with a non-zero database index, the Connector writes SELECT next.
ConnectSelect(i) ==
    /\ connectors[i].pc = AuthDone
    /\ m_DbIndex # 0
    /\ ~sock[connectors[i].s].broken
    /\ sock' = [sock EXCEPT ![connectors[i].s].out = Append(@, SelectQuery)]
    /\ connectors' = [connectors EXCEPT ![i].pc = "select"]
    /\ UNCHANGED <<m_Started, m_Connecting, m_Connected, m_Conn, queueVars,
                   m_SuppressedQueryKinds, m_QueuedWrites, m_QueuedReads,
                   m_ConnectedCallback, writer, reader, failures, quota,
                   configVars, requests, future, callbackRuns>>

\* The Connector reads the reply to AUTH or to SELECT, and it is OK.
ConnectReplyOk(i) ==
    /\ connectors[i].pc \in {"auth", "select"}
    /\ ~sock[connectors[i].s].broken
    /\ sock[connectors[i].s].nread < Len(sock[connectors[i].s].out)
    /\ sock' = [sock EXCEPT ![connectors[i].s].nread = @ + 1]
    /\ connectors' = [connectors EXCEPT
            ![i].pc = IF @ = "auth" THEN "authed" ELSE "selected"]
    /\ UNCHANGED <<m_Started, m_Connecting, m_Connected, m_Conn, queueVars,
                   m_SuppressedQueryKinds, m_QueuedWrites, m_QueuedReads,
                   m_ConnectedCallback, writer, reader, failures, quota,
                   configVars, requests, future, callbackRuns>>

\* The reply is not OK: the attempt fails, and the Connector tries again from
\* step 1.
ConnectReplyNotOk(i) ==
    /\ connectors[i].pc \in {"auth", "select"}
    /\ ~sock[connectors[i].s].broken
    /\ sock[connectors[i].s].nread < Len(sock[connectors[i].s].out)
    /\ failures < MaxFail
    /\ failures' = failures + 1
    /\ sock' = [sock EXCEPT ![connectors[i].s].nread = @ + 1,
                            ![connectors[i].s].rejected = TRUE]
    /\ connectors' = [connectors EXCEPT ![i] = NewConnector]
    /\ UNCHANGED <<m_Started, m_Connecting, m_Connected, m_Conn, queueVars,
                   m_SuppressedQueryKinds, m_QueuedWrites, m_QueuedReads,
                   m_ConnectedCallback, writer, reader, quota, configVars,
                   requests, future, callbackRuns>>

\* The socket breaks during the handshake: the attempt fails likewise.
ConnectHandshakeBroken(i) ==
    /\ connectors[i].pc \in {"opened", "auth", "authed", "select", "selected"}
    /\ connectors[i].pc # HandshakeDone
    /\ sock[connectors[i].s].broken
    /\ connectors' = [connectors EXCEPT ![i] = NewConnector]
    /\ UNCHANGED <<m_Started, m_Connecting, m_Connected, m_Conn, queueVars,
                   m_SuppressedQueryKinds, m_QueuedWrites, m_QueuedReads,
                   m_ConnectedCallback, writer, reader, envVars, requests,
                   future, callbackRuns>>

\* Steps 6 to 8 (no password and database 0: no AUTH, no SELECT): marks the
\* connection connected, runs the registered callback inline, and the Reader
\* and the Writer run again.
ConnectFinish(i) ==
    /\ connectors[i].pc = HandshakeDone
    /\ m_Connected' = TRUE
    /\ callbackRuns' = [callbackRuns EXCEPT ![connectors[i].s] =
            IF m_ConnectedCallback THEN @ + 1 ELSE @]
    /\ connectors' = RemoveAt(connectors, i)
    /\ UNCHANGED <<m_Started, m_Connecting, m_Conn, queueVars,
                   m_SuppressedQueryKinds, m_QueuedWrites, m_QueuedReads,
                   m_ConnectedCallback, writer, reader, envVars, requests,
                   future>>

\* ----------------------------------------------------------- environment

\* The server closes a socket, or the network fails: every operation on it
\* that is pending or started later fails.
SocketBreak(s) ==
    /\ ~sock[s].broken
    /\ failures < MaxFail
    /\ failures' = failures + 1
    /\ sock' = [sock EXCEPT ![s].broken = TRUE]
    /\ UNCHANGED <<m_Started, flagVars, queueVars, m_SuppressedQueryKinds,
                   m_QueuedWrites, m_QueuedReads, m_ConnectedCallback, writer,
                   reader, quota, configVars, requests, future, callbackRuns>>

\* ------------------------------------------------------------------ Next

Next ==
    \/ Start
    \/ \E p \in classes : FireAndForgetQuery(p)
    \/ \E p \in classes, n \in {MaxBatch} : FireAndForgetQueries(n, p)
    \/ \E p \in classes : GetResultOfQuery(p)
    \/ \E p \in classes, n \in {MaxBatch} : GetResultsOfQueries(n, p)
    \/ \E p \in classes : EnqueueCallback(p)
    \/ \E k \in SuppressedKinds : SuppressQueryKind(k)
    \/ \E k \in SuppressedKinds : UnsuppressQueryKind(k)
    \/ WriterSelect
    \/ WriterWait
    \/ WriteOneDone
    \/ ReaderWait
    \/ ReaderReadOne
    \/ ReadOneDone
    \/ \E i \in DOMAIN connectors : ConnectBegin(i)
    \/ \E i \in DOMAIN connectors : ConnectOpen(i)
    \/ \E i \in DOMAIN connectors : ConnectFinish(i)

Spec == Init /\ [][Next]_vars

\* A run without failures in which the producers also call Sync.
SyncNext ==
    \/ Next
    \/ Sync

SpecSync == Init /\ [][SyncNext]_vars

ResetNext ==
    \/ Next
    \/ SetConnectedCallback
    \/ WriterSelectDisconnected
    \/ WriteOneFail
    \/ ReadOneNoPromise
    \/ ReadOneFail
    \/ ReadOneProtocolError
    \/ \E s \in DOMAIN sock : SocketBreak(s)

SpecReset == ResetInit /\ [][ResetNext]_vars

\* A run without failures in which the server answers queries with errors.
ErrInit ==
    /\ Constructed
    /\ quota = MaxErrReq
    /\ classes = EnqueuePriorities
    /\ NoHandshake
    /\ failures = MaxFail

ErrNext == Next \/ ReadOneServerError

SpecErr == ErrInit /\ [][ErrNext]_vars

\* ---------------------------------------------------------------- codec runs

SeqsUpTo(S, n) == UNION {[1..k -> S] : k \in 0..n}

\* The arguments and the queries given to WriteRESP: every byte string up to
\* MaxArgLen over a letter, NUL, CR and LF, and one argument whose length has
\* two digits.
ArgBytes == {"a", "NUL", CR, LF}
LongArg == [i \in 1..LongArgLen |-> "a"]
Queries == SeqsUpTo(SeqsUpTo(ArgBytes, MaxArgLen), MaxArgs) \cup {<<LongArg>>}

\* What follows a query's bytes in the stream.
Trailer == <<"+", "a", CR, LF>>

\* Replies a server sends, each with the positions of its terminator bytes:
\* a simple string, an error, an integer, a bulk string, a null bulk string
\* and an array.
Frames ==
    { [bytes |-> <<"+", "a", CR, LF>>, term |-> {4}],
      [bytes |-> <<"-", "E", CR, LF>>, term |-> {4}],
      [bytes |-> <<":", "1", CR, LF>>, term |-> {4}],
      [bytes |-> <<"$", "1", CR, LF, "a", CR, LF>>, term |-> {4, 6, 7}],
      [bytes |-> <<"$", "-", "1", CR, LF>>, term |-> {5}],
      [bytes |-> <<"*", "1", CR, LF, ":", "1", CR, LF>>, term |-> {4, 8}] }

\* The bytes a server may put in place of a terminator byte.
TermBytes == {CR, LF, "NUL", "a", "+"}

\* WriteRESP encodes a query; other bytes follow it in the stream.
EncodeQuery(q) ==
    /\ resp.st = "none"
    /\ resp' = [NoResp EXCEPT !.st = "written", !.in = WriteRESP(q) \o Trailer,
                              !.encoded = TRUE, !.query = q]
    /\ UNCHANGED <<m_Started, flagVars, queueVars, m_SuppressedQueryKinds,
                   m_QueuedWrites, m_QueuedReads, m_ConnectedCallback, writer,
                   reader, sock, failures, quota, classes, m_Password,
                   m_DbIndex, requests, future, callbackRuns>>

\* The server sends a reply, with byte b where terminator byte i belongs.
ServerSends(f, i, b) ==
    /\ resp.st = "none"
    /\ resp' = [NoResp EXCEPT !.st = "received",
                              !.in = [f.bytes EXCEPT ![i] = b],
                              !.malformed = (b # f.bytes[i])]
    /\ UNCHANGED <<m_Started, flagVars, queueVars, m_SuppressedQueryKinds,
                   m_QueuedWrites, m_QueuedReads, m_ConnectedCallback, writer,
                   reader, sock, failures, quota, classes, m_Password,
                   m_DbIndex, requests, future, callbackRuns>>

\* ReadRESP reads the stream from its first byte.
DecodeStream ==
    /\ resp.st \in {"written", "received"}
    /\ resp' = [resp EXCEPT !.st = "decoded", !.out = ReadRESP(resp.in, 1)]
    /\ UNCHANGED <<m_Started, flagVars, queueVars, m_SuppressedQueryKinds,
                   m_QueuedWrites, m_QueuedReads, m_ConnectedCallback, writer,
                   reader, sock, failures, quota, classes, m_Password,
                   m_DbIndex, requests, future, callbackRuns>>

\* Another stream is looked at.
NextStream ==
    /\ resp.st = "decoded"
    /\ resp' = NoResp
    /\ UNCHANGED <<m_Started, flagVars, queueVars, m_SuppressedQueryKinds,
                   m_QueuedWrites, m_QueuedReads, m_ConnectedCallback, writer,
                   reader, sock, failures, quota, classes, m_Password,
                   m_DbIndex, requests, future, callbackRuns>>

CodecInit ==
    /\ Constructed
    /\ NoHandshake
    /\ quota = 0
    /\ classes = {}
    /\ failures = 0

CodecNext ==
    \/ \E q \in Queries : EncodeQuery(q)
    \/ \E f \in Frames, b \in TermBytes : \E i \in f.term : ServerSends(f, i, b)
    \/ DecodeStream
    \/ NextStream

SpecCodec == CodecInit /\ [][CodecNext]_vars

\* A run with failures on a connection that has a password, a non-zero
\* database index, or both: the Connector's handshake is part of every attempt.
AuthInit ==
    /\ Constructed
    /\ quota = MaxAuthReq
    /\ classes = ResetPriorities
    /\ failures = 0
    /\ m_Password \in BOOLEAN
    /\ m_DbIndex \in {0, 1}
    /\ m_Password \/ m_DbIndex # 0

AuthNext ==
    \/ Next
    \/ SetConnectedCallback
    \/ WriteOneFail
    \/ ReadOneNoPromise
    \/ ReadOneFail
    \/ ReadOneProtocolError
    \/ \E s \in DOMAIN sock : SocketBreak(s)
    \/ \E i \in DOMAIN connectors : ConnectAuth(i)
    \/ \E i \in DOMAIN connectors : ConnectSelect(i)
    \/ \E i \in DOMAIN connectors : ConnectReplyOk(i)
    \/ \E i \in DOMAIN connectors : ConnectReplyNotOk(i)
    \/ \E i \in DOMAIN connectors : ConnectHandshakeBroken(i)

SpecAuth == AuthInit /\ [][AuthNext]_vars

\* A run with failures in which the tasks are scheduled fairly: whichever of
\* the Writer, the Reader and a Connector can take a step eventually takes
\* one, and a started read or write eventually ends.  No class is suppressed.
WriterStep ==
    WriterSelect \/ WriterSelectDisconnected \/ WriterWait \/ WriteOneDone
        \/ WriteOneFail

ReaderStep ==
    ReaderWait \/ ReaderReadOne \/ ReadOneDone \/ ReadOneNoPromise \/ ReadOneFail

ConnectorStep ==
    \E i \in DOMAIN connectors : ConnectBegin(i) \/ ConnectOpen(i) \/ ConnectFinish(i)

FairNext ==
    \/ Start
    \/ \E p \in classes : FireAndForgetQuery(p)
    \/ \E p \in classes : GetResultOfQuery(p)
    \/ \E p \in classes, n \in {MaxBatch} : GetResultsOfQueries(n, p)
    \/ WriterStep
    \/ ReaderStep
    \/ ConnectorStep
    \/ ReadOneProtocolError
    \/ \E s \in DOMAIN sock : SocketBreak(s)

SpecFair ==
    /\ ResetInit
    /\ [][FairNext]_vars
    /\ WF_vars(WriterStep)
    /\ WF_vars(ReaderStep)
    /\ WF_vars(ConnectorStep)

\* A run without failures under fair scheduling, in which the owner
\* suppresses and unsuppresses a class.
ReleaseInit ==
    /\ Constructed
    /\ quota = MaxReleaseReq
    /\ classes = EnqueuePriorities
    /\ NoHandshake
    /\ failures = MaxFail

WriterRuns == WriterSelect \/ WriterWait \/ WriteOneDone

ReaderRuns == ReaderWait \/ ReaderReadOne \/ ReadOneDone

ReleaseNext ==
    \/ Start
    \/ \E p \in classes : FireAndForgetQuery(p)
    \/ \E p \in classes : GetResultOfQuery(p)
    \/ \E k \in SuppressedKinds : SuppressQueryKind(k)
    \/ \E k \in SuppressedKinds : UnsuppressQueryKindMarked(k)
    \/ WriterRuns
    \/ ReaderRuns
    \/ ConnectorStep

SpecRelease ==
    /\ ReleaseInit
    /\ [][ReleaseNext]_vars
    /\ WF_vars(WriterRuns)
    /\ WF_vars(ReaderRuns)
    /\ WF_vars(ConnectorStep)

\* ======================================================================
\* Properties
\* ======================================================================

\* What the Reader has to do with the reply to query q.
ActionFor(q) ==
    CASE requests[q[1]].kind = "GetResultOfQuery" -> Deliver
      [] requests[q[1]].kind = "GetResultsOfQueries" -> DeliverBulk
      [] OTHER -> Ignore

\* The descriptors, one entry per reply still to come.
RECURSIVE Expand(_)
Expand(fra) ==
    IF fra = <<>> THEN <<>>
    ELSE [i \in 1..Head(fra).Amount |-> Head(fra).Action] \o Expand(Tail(fra))

\* The queries written on socket s whose replies are not read yet.
Unread(s) == SubSeq(sock[s].out, sock[s].nread + 1, Len(sock[s].out))

\* The replies to the queries of request id, in the request's order.
OwnReplies(id) == [i \in 1..requests[id].n |-> ReplyTo(QueryOf(id, i))]

Awaited(id) == requests[id].kind \in {"GetResultOfQuery", "GetResultsOfQueries"}

IsQueued(id) ==
    \E p \in QueryPriority : \E i \in DOMAIN Writes[p] : Writes[p][i].id = id

\* Where the queries of request id are on the wire: <<socket, position>>.
WirePositions(id) ==
    UNION {{<<s, i>> : i \in {j \in DOMAIN sock[s].out : sock[s].out[j][1] = id}} :
                s \in DOMAIN sock}

WireBefore(x, y) == x[1] < y[1] \/ (x[1] = y[1] /\ x[2] < y[2])

\* C1: in a session without reset the i-th reply read is disposed of as the
\* i-th query written demands (the descriptors still in FutureResponseActions
\* are, in order, those of the unread queries; only the queries of the item
\* being written have no descriptor yet), and the value that completes a
\* GetResultOfQuery promise is the reply to that request's own query.
C1_ReplyMatchesQuery ==
    /\ \A s \in DOMAIN sock :
        LET u == Unread(s)
            e == Expand(FutureResponseActions)
        IN  /\ Len(e) <= Len(u)
            /\ \A i \in 1..Len(e) : e[i] = ActionFor(u[i])
            /\ \A i \in (Len(e) + 1)..Len(u) :
                    writer.pc = "write" /\ u[i][1] = writer.item.id
    /\ \A id \in DOMAIN requests :
        (requests[id].kind = "GetResultOfQuery" /\ future[id].st = "value")
            => future[id].val = <<ReplyTo(QueryOf(id, 1))>>

\* A GetResultOfQuery promise completed after the replies to a fire-and-forget
\* item and to another awaited item, written before it, were read.
C1_Witness ==
    \E id \in DOMAIN requests :
        /\ requests[id].kind = "GetResultOfQuery"
        /\ future[id].st = "value"
        /\ \E s \in DOMAIN sock : \E i \in DOMAIN sock[s].out :
            /\ sock[s].out[i] = QueryOf(id, 1)
            /\ \E j \in 1..(i - 1) : ActionFor(sock[s].out[j]) = Ignore
            /\ \E j \in 1..(i - 1) : ActionFor(sock[s].out[j]) # Ignore

\* C2: requests of one priority class are written to the wire in the order
\* they were enqueued (a request is not written while an earlier one of its
\* class is still queued) and their replies reach the requestors in that order,
\* whatever is enqueued at the other classes.
C2_FifoWithinClass ==
    \A a \in DOMAIN requests : \A b \in DOMAIN requests :
        (a < b /\ requests[a].priority = requests[b].priority) =>
            /\ \A x \in WirePositions(a) : \A y \in WirePositions(b) :
                    WireBefore(x, y)
            /\ (WirePositions(b) # {} \/ writer.item.id = b) => ~IsQueued(a)
            /\ (Awaited(a) /\ Awaited(b) /\ future[b].st = "value")
                    => future[a].st # "pending"

\* Two awaited requests of one class got their replies, in order, with a
\* request of another class, enqueued between them, written between them.
C2_Witness ==
    \E a \in DOMAIN requests : \E b \in DOMAIN requests : \E c \in DOMAIN requests :
        /\ a < c /\ c < b
        /\ requests[a].priority = requests[b].priority
        /\ requests[c].priority # requests[a].priority
        /\ future[a].st = "value" /\ future[b].st = "value"
        /\ \E x \in WirePositions(a) : \E y \in WirePositions(c) :
           \E z \in WirePositions(b) : WireBefore(x, y) /\ WireBefore(y, z)

\* C3: the vector that completes a GetResultsOfQueries promise holds exactly
\* the replies to the batch's k queries, in batch order; the batch is written
\* contiguously; what the Reader has collected for the batch in progress are
\* the batch's own first replies; and no reply to a query of the batch is
\* part of the value given to another request.
C3_BatchAtomicity ==
    /\ \A id \in DOMAIN requests :
        (requests[id].kind = "GetResultsOfQueries" /\ future[id].st = "value")
            => /\ Len(future[id].val) = requests[id].n
               /\ future[id].val = OwnReplies(id)
    /\ \A id \in DOMAIN requests : \A j \in DOMAIN future[id].val :
            future[id].val[j].to[1] = id
    /\ \A s \in DOMAIN sock : \A i \in DOMAIN sock[s].out :
        LET q == sock[s].out[i] IN
            (q[2] < requests[q[1]].n /\ i < Len(sock[s].out))
                => sock[s].out[i + 1] = QueryOf(q[1], q[2] + 1)
    /\ reader.buf # <<>> =>
        /\ RepliesPromises # <<>>
        /\ reader.buf = SubSeq(OwnReplies(Head(RepliesPromises)), 1, Len(reader.buf))

\* A batch completed although other items were written before and after it.
C3_Witness ==
    \E id \in DOMAIN requests :
        /\ requests[id].kind = "GetResultsOfQueries"
        /\ future[id].st = "value"
        /\ Len(future[id].val) = MaxBatch
        /\ \E s \in DOMAIN sock : \E i \in DOMAIN sock[s].out :
            /\ sock[s].out[i] = QueryOf(id, 1)
            /\ i > 1
            /\ i + MaxBatch <= Len(sock[s].out)

\* C4: whenever the Writer takes an item from a write queue, the item is the
\* front of the queue of the most important class (lowest QueryPriority value)
\* that is non-empty and not suppressed; so SyncConnection is served only when
\* every other class is empty or suppressed.
C4_PrioritySelection ==
    [][\A p \in QueryPriority :
        (Writes[p] # <<>> /\ Writes' = [Writes EXCEPT ![p] = Tail(@)]) =>
            /\ p \notin m_SuppressedQueryKinds
            /\ \A q \in QueryPriority :
                (q < p /\ Writes[q] # <<>>) => q \in m_SuppressedQueryKinds
            /\ writer'.pc = "write" => writer'.item = Head(Writes[p])
      ]_vars

\* The Writer writes an item although an item of a less important class,
\* enqueued earlier and not suppressed, is still queued.
C4_Witness ==
    /\ writer.pc = "write"
    /\ \E q \in QueryPriority :
        /\ Writes[q] # <<>>
        /\ q \notin m_SuppressedQueryKinds
        /\ q > requests[writer.item.id].priority
        /\ Head(Writes[q]).id < writer.item.id

\* C5: while a class is suppressed its queue only grows at the back (the
\* Writer takes nothing from it and nothing is dropped or reordered); every
\* queue holds its items in enqueue order; a request that is neither written
\* nor being written is still queued.
C5_SuppressionDefers ==
    /\ [][\A k \in m_SuppressedQueryKinds :
            /\ Len(Writes'[k]) >= Len(Writes[k])
            /\ SubSeq(Writes'[k], 1, Len(Writes[k])) = Writes[k]
         ]_vars
    /\ [](\A p \in QueryPriority : \A i \in DOMAIN Writes[p] : \A j \in DOMAIN Writes[p] :
            i < j => Writes[p][i].id < Writes[p][j].id)
    /\ [](\A id \in DOMAIN requests :
            requests[id].kind # "Callback" =>
                IsQueued(id) \/ writer.item.id = id \/ WirePositions(id) # {})

\* Two requests of a class went out in their order after a request of a less
\* important class that was enqueued after both: the class was suppressed
\* while the other was served, and unsuppressed later.
C5_Witness ==
    \E a \in DOMAIN requests : \E b \in DOMAIN requests : \E c \in DOMAIN requests :
        /\ a < b /\ b < c
        /\ requests[a].priority = requests[b].priority
        /\ requests[c].priority > requests[a].priority
        /\ \E x \in WirePositions(c) : \E y \in WirePositions(a) :
           \E z \in WirePositions(b) : WireBefore(x, y) /\ WireBefore(y, z)

IoFailure == WriteOneFail \/ ReadOneFail \/ ReadOneProtocolError

\* A step in which a Connector marks the connection connected: the Reader and
\* the Writer of a session start.
SessionStart == ~m_Connected /\ m_Connected'

AllQueuesEmpty ==
    /\ \A p \in QueryPriority : Writes[p] = <<>>
    /\ ReplyPromises = <<>>
    /\ RepliesPromises = <<>>
    /\ FutureResponseActions = <<>>

\* C7: a failure in the Reader or the Writer fails every outstanding promise
\* with Disconnected and leaves all queues empty; and when the Reader and the
\* Writer of the next session start, both promise queues and the
\* FutureResponseActions FIFO are empty and the write queues hold nothing from
\* before the failure (an item that has a promise has it pending: producers
\* may have enqueued while the connection was down).
C7_ResetClearsQueues ==
    [][ /\ IoFailure =>
            /\ \A id \in Outstanding : future'[id] = Disconnected
            /\ AllQueuesEmpty'
        /\ SessionStart =>
            /\ ReplyPromises = <<>>
            /\ RepliesPromises = <<>>
            /\ FutureResponseActions = <<>>
            /\ \A id \in QueuedPromises : future[id].st = "pending"
      ]_vars

\* C8: every GetResultOfQuery / GetResultsOfQueries call eventually returns,
\* with its replies or with Disconnected: a promise that is pending does not
\* stay pending forever.
C8_EveryCallReturns ==
    \A id \in 1..MaxResetReq :
        (id \in DOMAIN future /\ future[id].st = "pending")
            ~> (id \in DOMAIN future /\ future[id].st # "pending")

\* ----------------------------------------------------------------------
\* Reconnect
\* ----------------------------------------------------------------------

\* The sockets request id has a query on.
SocketsOf(id) ==
    {s \in DOMAIN sock : \E i \in DOMAIN sock[s].out : sock[s].out[i][1] = id}

\* A step in which an operation on socket s fails.
FailureOn(s) ==
    \/ WriteOneFail /\ writer.strm = s
    \/ (ReadOneFail \/ ReadOneProtocolError) /\ reader.strm = s

\* C9: a request enqueued in a session that follows a connection loss is
\* written on that session's socket only, completes with the replies to its
\* own queries, and fails with Disconnected only when an operation on that
\* session's socket fails; a reply that is delivered stays delivered.
C9_NewSessionRequest ==
    [][ \A id \in DOMAIN requests :
          /\ future[id].st = "value" => future'[id] = future[id]
          /\ requests[id].session > 0 =>
                /\ SocketsOf(id)' \subseteq {requests[id].session}
                /\ (future[id].st = "pending" /\ future'[id].st = "value") =>
                        future'[id].val = OwnReplies(id)
                /\ (future[id].st = "pending" /\ future'[id].st = "Disconnected") =>
                        FailureOn(requests[id].session)
      ]_vars

\* ----------------------------------------------------------------------
\* The on-connected callback
\* ----------------------------------------------------------------------

Handshake ==
    (IF m_Password THEN <<AuthQuery>> ELSE <<>>)
        \o (IF m_DbIndex # 0 THEN <<SelectQuery>> ELSE <<>>)

\* The handshake on socket s went through: its queries are written and their
\* replies are read, and the server refused none.
HandshakeComplete(s) ==
    /\ Len(sock[s].out) >= Len(Handshake)
    /\ sock[s].nread >= Len(Handshake)
    /\ ~sock[s].rejected

\* C11: on every socket AUTH (with a password) is written once, as the first
\* query, and SELECT (with a non-zero database index) next; a query of a user
\* item is written only after the replies to both are read; on a socket
\* whose AUTH or SELECT was refused no query of a user item is written, and the
\* connection is not marked connected on a socket whose handshake is not
\* complete.
C11_HandshakeFirst ==
    [][ /\ \A s \in DOMAIN sock' : \A i \in DOMAIN sock'[s].out :
            IF i <= Len(Handshake)
            THEN sock'[s].out[i] = Handshake[i]
            ELSE sock'[s].out[i][1] > 0
        /\ \A s \in DOMAIN sock :
            (Len(sock'[s].out) > Len(sock[s].out)
                    /\ sock'[s].out[Len(sock'[s].out)][1] > 0)
                => HandshakeComplete(s)
        /\ (SessionStart /\ m_Conn # 0) => HandshakeComplete(m_Conn)
      ]_vars

\* ----------------------------------------------------------------------
\* Sync
\* ----------------------------------------------------------------------

\* Request id is the request of a Sync call.
IsSync(id) ==
    /\ requests[id].kind = "GetResultOfQuery"
    /\ requests[id].priority = SyncConnection

\* The item of request id is through: it left its queue, all of its queries
\* are written (a callback ran) and all of their replies are read.
Processed(id) ==
    /\ ~IsQueued(id)
    /\ writer.item.id # id
    /\ \A x \in WirePositions(id) : x[2] <= sock[x[1]].nread

\* The item of request id was passed over: it is still queued, or it goes
\* or went to the wire after the query of request s.
HeldBack(id, s) ==
    \/ IsQueued(id)
    \/ writer.item.id = id /\ WirePositions(s) # {}
    \/ \E x \in WirePositions(id) : \E y \in WirePositions(s) : WireBefore(y, x)

\* C12 as stated: when a Sync call has returned, every item enqueued before
\* it, at any class, is written and all of its replies are read.
C12_SyncBarrier ==
    \A s \in DOMAIN requests :
        (IsSync(s) /\ future[s].st = "value") =>
            \A id \in 1..(s - 1) : Processed(id)

\* C12, amended: when a Sync call has returned, every item enqueued before it
\* is written and all of its replies are read, except the items the Writer
\* passed over; and the items the Writer passes over when it takes the Sync
\* item are those of the classes that are suppressed at that moment.
C12_SyncBarrierUnsuppressed ==
    /\ [](\A s \in DOMAIN requests :
            (IsSync(s) /\ future[s].st = "value") =>
                \A id \in 1..(s - 1) : Processed(id) \/ HeldBack(id, s))
    /\ [][\A s \in DOMAIN requests :
            (IsSync(s) /\ writer.item.id # s /\ writer'.item.id = s) =>
                \A id \in 1..(s - 1) :
                    IsQueued(id) => requests[id].priority \in m_SuppressedQueryKinds
         ]_vars

\* A Sync call returned after an awaited request of a more important class,
\* enqueued before it, got its reply, while an earlier item of a suppressed
\* class is still queued.
C12_Witness ==
    \E s \in DOMAIN requests : \E a \in DOMAIN requests : \E b \in DOMAIN requests :
        /\ IsSync(s) /\ future[s].st = "value"
        /\ a < s /\ b < s
        /\ requests[a].priority < SyncConnection
        /\ future[a].st = "value" /\ Processed(a)
        /\ IsQueued(b)

\* ----------------------------------------------------------------------
\* One reply per query
\* ----------------------------------------------------------------------

\* The replies the descriptors in fra stand for.
RECURSIVE AmountSum(_)
AmountSum(fra) ==
    IF fra = <<>> THEN 0 ELSE Head(fra).Amount + AmountSum(Tail(fra))

\* The queries on socket s of the item the Writer is writing: its descriptor
\* is pushed after its last query.
WrittenInFlight(s) ==
    IF writer.pc = "write"
    THEN Cardinality({i \in DOMAIN sock[s].out : sock[s].out[i][1] = writer.item.id})
    ELSE 0

\* C13 as stated: in a session the replies read never exceed the queries
\* written, the Amounts in FutureResponseActions sum up to queries written
\* minus replies read, and the Reader is in a read only while
\* FutureResponseActions is not empty.
C13_OneReplyPerQuery ==
    /\ \A s \in DOMAIN sock :
        /\ sock[s].nread <= Len(sock[s].out)
        /\ AmountSum(FutureResponseActions) = Len(sock[s].out) - sock[s].nread
    /\ reader.pc = "read" => FutureResponseActions # <<>>

\* C13, amended: as stated, but the queries already written of the item the
\* Writer is in the middle of have no descriptor yet, so the Amounts sum up to
\* queries written minus replies read minus those queries; the Reader does not
\* read their replies before the descriptor is pushed.
C13_OneReplyPerDescribedQuery ==
    /\ \A s \in DOMAIN sock :
        /\ sock[s].nread <= Len(sock[s].out) - WrittenInFlight(s)
        /\ AmountSum(FutureResponseActions) =
                Len(sock[s].out) - sock[s].nread - WrittenInFlight(s)
    /\ reader.pc = "read" => FutureResponseActions # <<>>
    /\ sock = <<>> => FutureResponseActions = <<>>

\* The reply to a fire-and-forget query was read, replies are still to come,
\* and the Writer is between two queries of a batch.
C13_Witness ==
    \E s \in DOMAIN sock :
        /\ sock[s].nread >= 1
        /\ ActionFor(sock[s].out[1]) = Ignore
        /\ AmountSum(FutureResponseActions) >= 1
        /\ WrittenInFlight(s) >= 1

\* ----------------------------------------------------------------------
\* The RESP codec
\* ----------------------------------------------------------------------

\* C15: a reply in which a terminator byte is not the CR or LF that belongs
\* there is not decoded as a value: ReadRESP ends with a protocol error.
C15_OnlyCrLfTerminates ==
    (resp.st = "decoded" /\ resp.malformed) => resp.out.st # "value"

\* The value ReadRESP has to return for the bytes of a query.
ArrayOfStrings(query) == RespArray([i \in DOMAIN query |-> RespString(query[i])])

\* C16: ReadRESP on the bytes WriteRESP produced for a query returns the array
\* of the query's strings, in order, and stops at the first byte after them:
\* the value that follows in the stream is read from there.
C16_RoundTrip ==
    (resp.st = "decoded" /\ resp.encoded) =>
        /\ resp.out = Returned(ArrayOfStrings(resp.query),
                               Len(WriteRESP(resp.query)) + 1)
        /\ ReadRESP(resp.in, resp.out.next) =
                Returned(RespString(<<"a">>), Len(resp.in) + 1)

\* The round trip of a query with an argument of CR LF, and an empty one.
C16_Witness ==
    /\ resp.st = "decoded"
    /\ resp.encoded
    /\ resp.query = << <<CR, LF>>, <<>> >>
    /\ resp.out.st = "value"

\* ----------------------------------------------------------------------
\* Server error replies
\* ----------------------------------------------------------------------

\* Whether the step reads an error reply from socket s.
ReadsErrorReply(s) == sock'[s].errs > sock[s].errs

\* C14: reading a server error reply to an awaited query completes the
\* promise with the error value carrying the message (for a bulk promise the
\* error value is the reply at its position); no promise fails, nothing is
\* reset (connected, the socket handle, the Connectors stay as they are) and
\* the queues change as for a normal reply: the descriptor is consumed, the
\* completed promise leaves its queue, the write queues are untouched.
C14_ErrorReplyIsValue ==
    [][\A s \in DOMAIN sock :
        (ReadsErrorReply(s) /\ FutureResponseActions # <<>>) =>
            LET front == QueueFront(FutureResponseActions)
            IN  /\ UNCHANGED <<flagVars, Writes>>
                /\ FutureResponseActions' = Consumed(FutureResponseActions)
                /\ \A id \in DOMAIN future :
                        future'[id].st = "Disconnected" =>
                            future[id].st = "Disconnected"
                /\ front.Action = Deliver =>
                        /\ future'[QueueFront(ReplyPromises)] =
                                Value(<<RedisError(ErrMessage)>>)
                        /\ ReplyPromises' = QueuePop(ReplyPromises)
                        /\ UNCHANGED RepliesPromises
                /\ (front.Action = DeliverBulk /\ front.Amount = 1) =>
                        /\ future'[QueueFront(RepliesPromises)] =
                                Value(Append(reader.buf,
                                             RedisError(ErrMessage)))
                        /\ RepliesPromises' = QueuePop(RepliesPromises)
                        /\ UNCHANGED ReplyPromises
                /\ (front.Action = DeliverBulk /\ front.Amount > 1) =>
                        /\ reader'.buf =
                                Append(reader.buf, RedisError(ErrMessage))
                        /\ UNCHANGED <<ReplyPromises, RepliesPromises, future>>
                /\ front.Action = Ignore =>
                        UNCHANGED <<ReplyPromises, RepliesPromises, future>>
      ]_vars

\* A promise completed with the error value, the connection still connected.
C14_Witness ==
    /\ m_Connected
    /\ m_Conn # 0
    /\ Len(connectors) = 0
    /\ \E id \in DOMAIN future :
            future[id] = Value(<<RedisError(ErrMessage)>>)

\* ----------------------------------------------------------------------
\* Connector tasks
\* ----------------------------------------------------------------------

\* C17: at most one Connector task is active at any time, whatever fails in
\* ReadOne and WriteOne and however often Start is called.
C17_OneConnector == Len(connectors) <= 1

\* ----------------------------------------------------------------------
\* Unsuppressing wakes the Writer
\* ----------------------------------------------------------------------

\* C18: an item that was queued in a suppressed class when the class was
\* unsuppressed, the connection connected and the Writer waiting on the
\* writes-pending condition variable, is eventually written (unless its class
\* is suppressed again before), whether or not anything is enqueued later.
C18_UnsuppressWakesWriter ==
    \A id \in 1..MaxReleaseReq :
        (/\ id \in DOMAIN requests
         /\ requests[id].released
         /\ IsQueued(id)
         /\ ~IsSuppressed(requests[id].priority)
         /\ m_Connected)
        ~> (/\ id \in DOMAIN requests
            /\ \/ WirePositions(id) # {}
               \/ IsSuppressed(requests[id].priority))

\* A released item is on the wire and nothing was enqueued after it.
C18_Witness ==
    \E id \in DOMAIN requests :
        /\ requests[id].released
        /\ WirePositions(id) # {}
        /\ id = Len(requests)

\* ----------------------------------------------------------------------
\* Promises and descriptors
\* ----------------------------------------------------------------------

\* The replies the Deliver descriptors of fra still announce.
RECURSIVE DeliverAmount(_)
DeliverAmount(fra) ==
    IF fra = <<>> THEN 0
    ELSE (IF Head(fra).Action = Deliver THEN Head(fra).Amount ELSE 0)
            + DeliverAmount(Tail(fra))

\* The DeliverBulk descriptors of fra.
BulkDescriptors(fra) == {i \in DOMAIN fra : fra[i].Action = DeliverBulk}

\* The promise of the item the Writer is writing: it is in its promise queue
\* already, the descriptor follows when the last query is written.
WritingKind(kind) ==
    IF writer.pc = "write" /\ writer.item.kind = kind THEN 1 ELSE 0

\* C19: the programming-error condition of the Reader is unreachable, also
\* across resets: the Amount of the Deliver descriptors equals the size of
\* ReplyPromises and the number of DeliverBulk descriptors the size of
\* RepliesPromises (but for the promise of the item being written, whose
\* descriptor is not pushed yet), so the front descriptor never demands a
\* delivery from an empty promise queue.
C19_PromiseForEveryDescriptor ==
    /\ Len(ReplyPromises) - DeliverAmount(FutureResponseActions)
            \in 0..WritingKind("GetResultOfQuery")
    /\ Len(RepliesPromises)
            - Cardinality(BulkDescriptors(FutureResponseActions))
            \in 0..WritingKind("GetResultsOfQueries")
    /\ ~PromiseMissing

\* ----------------------------------------------------------------------
\* Failures of an earlier session
\* ----------------------------------------------------------------------

\* C20: once a Connector has installed a new socket and marked the connection
\* connected, an error of an operation that was started on an earlier socket
\* resets nothing: only a failure on the current socket clears the socket
\* handle, marks the connection disconnected or spawns a Connector.
C20_StaleFailureIgnored ==
    [][ (IoFailure /\ m_Connected /\ m_Conn # 0 /\ ~FailureOn(m_Conn)) =>
            UNCHANGED <<m_Conn, m_Connected, connectors>>
      ]_vars

====
